---- MODULE Spec2Model ----
(***************************************************************************)
(* Model of nipype/interfaces/dcm2nii.py: the Dcm2nii command line         *)
(* interface.  Two parts are modelled: the output scraper                  *)
(* (Dcm2nii._parse_stdout, with the path functions it calls) and the       *)
(* command builder (Dcm2nii._format_arg on top of the CommandLine base     *)
(* class).                                                                 *)
(*                                                                         *)
(* A Python string is a sequence of tokens.  A token is either one of the  *)
(* characters that the code gives a meaning to ("/", ".", "\n"), or a      *)
(* chunk of text without any of these characters and without a partial     *)
(* marker ("Saving ", "-->", "a", ...).  A marker that contains "/" or "." *)
(* is written as several tokens, so that every string function below works *)
(* on tokens exactly as the Python function works on characters.           *)
(***************************************************************************)
EXTENDS Integers, Sequences, FiniteSets, TLC

VARIABLES
    inputs,      \* self.inputs: option name -> [def, v] (the traits of Dcm2niiInputSpec)
    cwd,         \* the process's current working directory (os.getcwd())
    stdout,      \* the text handed to _parse_stdout
    lines,       \* stdout.split("\n"), the list the for loop walks
    i,           \* index in lines of the next line of the for loop
    pc,          \* "idle" | "loop" | "done": position in _parse_stdout
    locals,      \* the local variables of _parse_stdout (files, ..., skip, last_added_file)
    hist,        \* history: locals before the first line and after each line so far
    gen_calls,   \* history: calls of _gen_filename('output_dir') in this scrape
    env0,        \* history: os.getcwd() and inputs.output_dir when this scrape was invoked
    result,      \* value returned by the last finished _parse_stdout
    first,       \* history: what the scrape before this one returned, its output_dir and cwd
    round,       \* number of scrapes started
    cmdline,     \* the string the cmdline property returned last
    allargs,     \* the argument vector it was joined from
    initial_args,\* _parse_inputs' dictionary: position -> rendered argument
    built,       \* history: the inputs and working directory cmdline was built from
    fs,          \* the file system: directory -> content of its config.ini
    raised,      \* the exception raised last
    sets,        \* number of inputs assigned since construction
    stored,      \* self.output_files, ..., self.bvals: the five attributes of the object
    run,         \* "none" | "scrape" | "ok" | "error": position in and outcome of _run_interface
    before,      \* history: the attributes and the scraper's position when this run began
    gen          \* history: the calls of _gen_filename made by the last caller

\* the variables of the command builder
bvars == <<cmdline, allargs, initial_args, built, fs, raised, sets>>

\* the variables of _run_interface and the history of _gen_filename
rvars == <<stored, run, before, gen>>

vars == <<inputs, cwd, stdout, lines, i, pc, locals, hist, gen_calls, env0,
          result, first, round, bvars, rvars>>

(***************************************************************************)
(* Bounds of the model.                                                    *)
(***************************************************************************)
MaxLines == 3
MaxLinesTwice == 2
MaxSets == 2
MaxRuns == 2
MaxLinesRun == 2

(***************************************************************************)
(* Python values.                                                          *)
(***************************************************************************)
None == <<"<None>">>
Undefined == [def |-> FALSE, v |-> <<>>]
Val(x) == [def |-> TRUE, v |-> x]
isdefined(x) == x.def
\* an attribute the object does not have (yet)
Unset == <<"<unset>">>
\* truth value of a str-or-None (`if file:`, `if last_added_file:`)
Truthy(x) == x # None /\ x # <<>>

Range(s) == {s[k] : k \in 1..Len(s)}

(***************************************************************************)
(* str methods.                                                            *)
(***************************************************************************)
startswith(s, m) == Len(s) >= Len(m) /\ SubSeq(s, 1, Len(m)) = m
\* s[len(m):]
After(s, m) == SubSeq(s, Len(m) + 1, Len(s))

\* s.rfind(c) over s[:k], 1-based; 0 when c does not occur
RECURSIVE RFind(_, _, _)
RFind(s, c, k) ==
    IF k = 0 THEN 0 ELSE IF s[k] = c THEN k ELSE RFind(s, c, k - 1)

\* s.find(c) from position k, 1-based; 0 when c does not occur
RECURSIVE Find(_, _, _)
Find(s, c, k) ==
    IF k > Len(s) THEN 0 ELSE IF s[k] = c THEN k ELSE Find(s, c, k + 1)

\* s.rstrip(c)
RECURSIVE rstrip(_, _)
rstrip(s, c) ==
    IF s # <<>> /\ s[Len(s)] = c THEN rstrip(SubSeq(s, 1, Len(s) - 1), c) ELSE s

\* s.split(sep) for a one-character sep
RECURSIVE split(_, _)
split(s, sep) ==
    LET k == Find(s, sep, 1)
    IN  IF k = 0 THEN <<s>>
        ELSE <<SubSeq(s, 1, k - 1)>> \o split(SubSeq(s, k + 1, Len(s)), sep)

\* sep.join(parts)
RECURSIVE joinstr(_, _)
joinstr(sep, parts) ==
    IF parts = <<>> THEN <<>>
    ELSE IF Len(parts) = 1 THEN parts[1]
    ELSE parts[1] \o <<sep>> \o joinstr(sep, Tail(parts))

(***************************************************************************)
(* os.path (posixpath).                                                    *)
(***************************************************************************)
isabs(p) == startswith(p, <<"/">>)

os_path_join(a, b) ==
    IF isabs(b) THEN b
    ELSE IF a = <<>> \/ a[Len(a)] = "/" THEN a \o b
    ELSE a \o <<"/">> \o b

os_path_split(p) ==
    LET k == RFind(p, "/", Len(p))
        head == SubSeq(p, 1, k)
        tail == SubSeq(p, k + 1, Len(p))
    IN  <<IF head # <<>> /\ rstrip(head, "/") # <<>> THEN rstrip(head, "/") ELSE head,
          tail>>

\* first position in k..dot-1 of s that holds no ".", 0 when there is none
RECURSIVE NonDot(_, _, _)
NonDot(s, k, dot) ==
    IF k >= dot THEN 0 ELSE IF s[k] # "." THEN k ELSE NonDot(s, k + 1, dot)

os_path_splitext(p) ==
    LET sepIndex == RFind(p, "/", Len(p))
        dotIndex == RFind(p, ".", Len(p))
    IN  IF dotIndex > sepIndex /\ NonDot(p, sepIndex + 1, dotIndex) # 0
        THEN <<SubSeq(p, 1, dotIndex - 1), SubSeq(p, dotIndex, Len(p))>>
        ELSE <<p, <<>>>>

RECURSIVE NormComps(_, _, _)
NormComps(comps, new, initial) ==
    IF comps = <<>> THEN new
    ELSE LET comp == Head(comps)
             rest == Tail(comps)
         IN  IF comp = <<>> \/ comp = <<".">> THEN NormComps(rest, new, initial)
             ELSE IF \/ comp # <<".", ".">>
                     \/ (initial = 0 /\ new = <<>>)
                     \/ (new # <<>> /\ new[Len(new)] = <<".", ".">>)
                  THEN NormComps(rest, Append(new, comp), initial)
             ELSE IF new # <<>>
                  THEN NormComps(rest, SubSeq(new, 1, Len(new) - 1), initial)
             ELSE NormComps(rest, new, initial)

os_path_normpath(path) ==
    IF path = <<>> THEN <<".">>
    ELSE LET initial == IF ~isabs(path) THEN 0
                        ELSE IF startswith(path, <<"/", "/">>)
                                /\ ~startswith(path, <<"/", "/", "/">>) THEN 2
                        ELSE 1
             body == joinstr("/", NormComps(split(path, "/"), <<>>, initial))
             p == [k \in 1..initial |-> "/"] \o body
         IN  IF p = <<>> THEN <<".">> ELSE p

\* os.path.abspath reads os.getcwd() itself
os_path_abspath(path, cw) ==
    os_path_normpath(IF isabs(path) THEN path ELSE os_path_join(cw, path))

\* nipype.utils.filemanip.split_filename: (directory, base name, extension)
split_filename(fname) ==
    LET st == os_path_split(fname)
        se == os_path_splitext(st[2])
    IN  <<st[1], se[1], se[2]>>

(***************************************************************************)
(* Dcm2nii._gen_filename: the value it returns.                            *)
(***************************************************************************)
ConfigIni == <<"config", ".", "ini">>

_gen_filename(name, cw) ==
    IF name = "output_dir" THEN cw
    ELSE IF name = "config_file" THEN ConfigIni
    ELSE None

\* the content _gen_filename('config_file') writes, lines 160-163
ConfigText == <<"[BOOL]", "\n", "ManualNIfTIConv=0", "\n">>
\* a directory without a config.ini, and a config.ini somebody else wrote
NoFile == <<"<no file>">>
OldText == <<"[BOOL]", "\n", "ManualNIfTIConv=1", "\n", "[INT]", "\n">>
FileContents == {NoFile, OldText, ConfigText}

\* a bug: the file opened with "a", what it held is kept
gen_filename_appends(name, cw, f) ==
    IF name = "config_file"
    THEN [f EXCEPT ![cw] = (IF @ = NoFile THEN <<>> ELSE @) \o ConfigText]
    ELSE f

\* Dcm2nii._gen_filename: the file system after it, f being the one before;
\* open("config.ini", "w") truncates the file of that name in the working
\* directory, or creates it
gen_filename_writes(name, cw, f) ==
    IF name = "config_file" THEN [f EXCEPT ![cw] = ConfigText] ELSE f

\* one call of _gen_filename(name): what it returned and what it wrote
GenCall(name, cw, f) ==
    [name |-> name, cwd |-> cw, ret |-> _gen_filename(name, cw),
     fs0 |-> f, fs1 |-> gen_filename_writes(name, cw, f)]

\* the file system after the calls, f being the one before them
FsAfter(calls, f) == IF calls = <<>> THEN f ELSE calls[Len(calls)].fs1

(***************************************************************************)
(* Dcm2nii._parse_stdout.                                                  *)
(***************************************************************************)
Saving == <<"Saving ">>
GZip == <<"GZip", ".", ".", ".">>
NumberOfDirections == <<"Number of diffusion directions ">>
Reorienting == <<"Reorienting as ">>
Cropping == <<"Cropping NIfTI", "/", "Analyze image ">>
Arrow == "-->"

\* re.search('.*-->(.*)', line): a line holds no "\n", so "." matches every token
HasArrow(line) == RFind(line, Arrow, Len(line)) # 0
\* a bug: a pattern that is not greedy, the group is what follows the first "-->"
ArrowGroup_First(line) == SubSeq(line, Find(line, Arrow, 1) + 1, Len(line))

\* .groups()[0]: ".*" is greedy, the group is what follows the last "-->"
ArrowGroup(line) == SubSeq(line, RFind(line, Arrow, Len(line)) + 1, Len(line))

\* a bug: the output_dir the user supplied is not looked at
OutputDir_AlwaysCwd(inp, cw) == _gen_filename("output_dir", cw)

\* lines 107-110 and 121-124: the directory a relative path is resolved against
OutputDir(inp, cw) ==
    IF isdefined(inp.output_dir) THEN inp.output_dir.v
    ELSE _gen_filename("output_dir", cw)

\* a bug: the arrow pattern is tested after the "Reorienting as " and
\* "Cropping ..." markers instead of before them
FileOf_ArrowLast(line, inp, cw) ==
    IF startswith(line, Saving) THEN After(line, Saving)
    ELSE IF startswith(line, GZip)
         THEN os_path_abspath(os_path_join(OutputDir(inp, cw), After(line, GZip)), cw)
    ELSE IF startswith(line, NumberOfDirections) THEN None
    ELSE IF startswith(line, Reorienting) \/ startswith(line, Cropping) THEN None
    ELSE IF HasArrow(line) THEN os_path_join(OutputDir(inp, cw), ArrowGroup(line))
    ELSE None

\* a bug: the "Saving " marker is not cut off (file = line)
FileOf_WholeLine(line, inp, cw) ==
    IF startswith(line, Saving) THEN line
    ELSE IF startswith(line, GZip)
         THEN os_path_abspath(os_path_join(OutputDir(inp, cw), After(line, GZip)), cw)
    ELSE IF startswith(line, NumberOfDirections) THEN None
    ELSE IF HasArrow(line) THEN os_path_join(OutputDir(inp, cw), ArrowGroup(line))
    ELSE None

\* a bug: `if re.search(...)` instead of `elif re.search(...)`, so that the
\* arrow pattern is tested on every line that is not a "Saving "/"GZip..." line
FileOf_IfNotElif(line, inp, cw) ==
    IF startswith(line, Saving) THEN After(line, Saving)
    ELSE IF startswith(line, GZip)
         THEN os_path_abspath(os_path_join(OutputDir(inp, cw), After(line, GZip)), cw)
    ELSE IF HasArrow(line) THEN os_path_join(OutputDir(inp, cw), ArrowGroup(line))
    ELSE None

\* lines 102-126: the value of `file` after the if/elif chain
FileOf(line, inp, cw) ==
    IF startswith(line, Saving) THEN After(line, Saving)
    ELSE IF startswith(line, GZip)
         THEN os_path_abspath(os_path_join(OutputDir(inp, cw), After(line, GZip)), cw)
    ELSE IF startswith(line, NumberOfDirections) THEN None
    ELSE IF HasArrow(line) THEN os_path_join(OutputDir(inp, cw), ArrowGroup(line))
    ELSE None

\* whether the if/elif chain of lines 103-126 calls _gen_filename('output_dir')
CallsGen(line, inp) ==
    /\ ~isdefined(inp.output_dir)
    /\ ~startswith(line, Saving)
    /\ \/ startswith(line, GZip)
       \/ ~startswith(line, NumberOfDirections) /\ HasArrow(line)

\* a bug: an entry already in the list is not added again
append_dedup(list, x) == IF x \in Range(list) THEN list ELSE Append(list, x)

\* list.append
append(list, x) == Append(list, x)

\* a bug: the b-value file named after the whole file name, extension included
Diffusion_BvalKeepsExt(s, line) ==
    IF /\ ~startswith(line, Saving)
       /\ ~startswith(line, GZip)
       /\ startswith(line, NumberOfDirections)
       /\ Truthy(s.last_added_file)
    THEN LET sf == split_filename(s.last_added_file)
         IN  [s EXCEPT
                !.bvecs = append(@, os_path_join(sf[1], sf[2] \o <<".", "bvec">>)),
                !.bvals = append(@, os_path_join(sf[1], sf[2] \o sf[3] \o <<".", "bval">>))]
    ELSE s

\* lines 113-117: the branch of the "Number of diffusion directions " line
Diffusion(s, line) ==
    IF /\ ~startswith(line, Saving)
       /\ ~startswith(line, GZip)
       /\ startswith(line, NumberOfDirections)
       /\ Truthy(s.last_added_file)
    THEN LET sf == split_filename(s.last_added_file)
         IN  [s EXCEPT
                !.bvecs = append(@, os_path_join(sf[1], sf[2] \o <<".", "bvec">>)),
                !.bvals = append(@, os_path_join(sf[1], sf[2] \o <<".", "bval">>))]
    ELSE s

\* a bug: "c" put before the whole remainder, not before the file name
Classify_CropWholePath(s, line, inp, cw) ==
    LET file == FileOf(line, inp, cw)
        s1 == Diffusion(s, line)
    IN  IF Truthy(file)
        THEN [s1 EXCEPT !.files = append(@, file), !.last_added_file = file]
        ELSE IF startswith(line, Reorienting)
        THEN [s1 EXCEPT !.reoriented_files = append(@, After(line, Reorienting)),
                        !.skip = TRUE]
        ELSE IF startswith(line, Cropping)
        THEN [s1 EXCEPT
                !.reoriented_and_cropped_files =
                    append(@, <<"c">> \o After(line, Cropping)),
                !.skip = TRUE]
        ELSE [s1 EXCEPT !.skip = FALSE]

\* a bug: the `continue` of line 131 left out, a line that gave a converted
\* file is tested for the "Reorienting as " and "Cropping ..." markers too
Classify_NoContinue(s, line, inp, cw) ==
    LET file == FileOf(line, inp, cw)
        s1 == Diffusion(s, line)
        s2 == IF Truthy(file)
              THEN [s1 EXCEPT !.files = append(@, file), !.last_added_file = file]
              ELSE s1
    IN  IF startswith(line, Reorienting)
        THEN [s2 EXCEPT !.reoriented_files = append(@, After(line, Reorienting)),
                        !.skip = TRUE]
        ELSE IF startswith(line, Cropping)
        THEN LET sp == os_path_split(After(line, Cropping))
             IN  [s2 EXCEPT
                    !.reoriented_and_cropped_files =
                        append(@, os_path_join(sp[1], <<"c">> \o sp[2])),
                    !.skip = TRUE]
        ELSE [s2 EXCEPT !.skip = FALSE]

\* lines 102-142: the body of `if not skip:`; the branches that `continue`
\* leave skip as it is, the others fall through to line 143
Classify(s, line, inp, cw) ==
    LET file == FileOf(line, inp, cw)
        s1 == Diffusion(s, line)
    IN  IF Truthy(file)
        THEN [s1 EXCEPT !.files = append(@, file), !.last_added_file = file]
        ELSE IF startswith(line, Reorienting)
        THEN [s1 EXCEPT !.reoriented_files = append(@, After(line, Reorienting)),
                        !.skip = TRUE]
        ELSE IF startswith(line, Cropping)
        THEN LET sp == os_path_split(After(line, Cropping))
             IN  [s1 EXCEPT
                    !.reoriented_and_cropped_files =
                        append(@, os_path_join(sp[1], <<"c">> \o sp[2])),
                    !.skip = TRUE]
        ELSE [s1 EXCEPT !.skip = FALSE]

\* a bug: line 143 indented into `if not skip:`, the flag is never cleared
ProcessLine_NoClear(s, line, inp, cw) ==
    IF ~s.skip THEN Classify(s, line, inp, cw) ELSE s

\* a bug: the last file reset to None for every line that is classified
ProcessLine_ResetPerLine(s, line, inp, cw) ==
    IF ~s.skip THEN Classify([s EXCEPT !.last_added_file = None], line, inp, cw)
    ELSE [s EXCEPT !.skip = FALSE]

\* lines 101-143: one iteration of the for loop
ProcessLine(s, line, inp, cw) ==
    IF ~s.skip THEN Classify(s, line, inp, cw) ELSE [s EXCEPT !.skip = FALSE]

\* lines 93-99
Locals0 ==
    [files |-> <<>>, reoriented_files |-> <<>>,
     reoriented_and_cropped_files |-> <<>>, bvecs |-> <<>>, bvals |-> <<>>,
     skip |-> FALSE, last_added_file |-> None]

\* line 144: the returned tuple
Returned(s) ==
    <<s.files, s.reoriented_files, s.reoriented_and_cropped_files, s.bvecs, s.bvals>>

(***************************************************************************)
(* The stdout texts and the directories the model draws from.              *)
(***************************************************************************)
LineSet ==
    { <<>>,
      Saving \o <<"/", "a", ".", "b">>,
      Saving,
      GZip \o <<"a">>,
      NumberOfDirections \o <<Arrow, "a">>,
      <<Arrow, "b", Arrow, "a">>,
      <<Arrow>>,
      <<"b", Arrow, "/", "a">>,
      Reorienting \o <<"/", "a">>,
      Reorienting \o <<Arrow, "a">>,
      Cropping \o <<"d", "/", "a">>,
      Cropping \o <<Arrow, "a">> }

Texts(n) ==
    { joinstr("\n", ls) : ls \in UNION { [1..k -> LineSet] : k \in 1..n } }

\* the lines of the texts of a sequence of runs
RunLines ==
    { GZip \o <<"a", ".", "b">>,
      NumberOfDirections \o <<Arrow, "a">>,
      Reorienting \o <<"/", "a">> }

RunTexts(n) ==
    { joinstr("\n", ls) : ls \in UNION { [1..k -> RunLines] : k \in 1..n } }

Cwds == { <<"/", "w">>, <<"/", "v">> }
OutDirs == { <<".">>, <<"/", "o">> }

(***************************************************************************)
(* Dcm2niiInputSpec: the options, their flags, positions and defaults.     *)
(***************************************************************************)
\* the names sorted as _parse_inputs walks them
SortedNames ==
    <<"anonymize", "args", "collapse_folders", "config_file", "convert_all_pars",
      "date_in_filename", "events_in_filename", "gzip_output", "id_in_filename",
      "nii_output", "output_dir", "protocol_in_filename", "reorient",
      "reorient_and_crop", "source_in_filename", "source_names", "spm_analyze">>
Options == Range(SortedNames)

\* the traits declared traits.Bool
BoolTraits ==
    {"anonymize", "collapse_folders", "date_in_filename", "events_in_filename",
     "source_in_filename", "gzip_output", "id_in_filename", "nii_output",
     "protocol_in_filename", "reorient", "spm_analyze", "convert_all_pars",
     "reorient_and_crop"}

\* argstr=...: a format string, "%s" the place of the value
argstr(opt) ==
    CASE opt = "source_names" -> <<"%s">>
      [] opt = "anonymize" -> <<"-a">>
      [] opt = "config_file" -> <<"-b", " ", "%s">>
      [] opt = "collapse_folders" -> <<"-c">>
      [] opt = "date_in_filename" -> <<"-d">>
      [] opt = "events_in_filename" -> <<"-e">>
      [] opt = "source_in_filename" -> <<"-f">>
      [] opt = "gzip_output" -> <<"-g">>
      [] opt = "id_in_filename" -> <<"-i">>
      [] opt = "nii_output" -> <<"-n">>
      [] opt = "output_dir" -> <<"-o", " ", "%s">>
      [] opt = "protocol_in_filename" -> <<"-p">>
      [] opt = "reorient" -> <<"-r">>
      [] opt = "spm_analyze" -> <<"-s">>
      [] opt = "convert_all_pars" -> <<"-v">>
      [] opt = "reorient_and_crop" -> <<"-x">>
      [] opt = "args" -> <<"%s">>

\* a bug: the free-form args declared after the source file
position_ArgsLast(opt) ==
    CASE opt = "source_names" -> 15
      [] opt = "anonymize" -> 0
      [] opt = "config_file" -> 1
      [] opt = "collapse_folders" -> 2
      [] opt = "date_in_filename" -> 3
      [] opt = "events_in_filename" -> 4
      [] opt = "source_in_filename" -> 5
      [] opt = "gzip_output" -> 6
      [] opt = "id_in_filename" -> 7
      [] opt = "nii_output" -> 8
      [] opt = "output_dir" -> 9
      [] opt = "protocol_in_filename" -> 10
      [] opt = "reorient" -> 11
      [] opt = "spm_analyze" -> 12
      [] opt = "convert_all_pars" -> 13
      [] opt = "reorient_and_crop" -> 14
      [] opt = "args" -> 16

\* position=...
position(opt) ==
    CASE opt = "source_names" -> 16
      [] opt = "anonymize" -> 0
      [] opt = "config_file" -> 1
      [] opt = "collapse_folders" -> 2
      [] opt = "date_in_filename" -> 3
      [] opt = "events_in_filename" -> 4
      [] opt = "source_in_filename" -> 5
      [] opt = "gzip_output" -> 6
      [] opt = "id_in_filename" -> 7
      [] opt = "nii_output" -> 8
      [] opt = "output_dir" -> 9
      [] opt = "protocol_in_filename" -> 10
      [] opt = "reorient" -> 11
      [] opt = "spm_analyze" -> 12
      [] opt = "convert_all_pars" -> 13
      [] opt = "reorient_and_crop" -> 14
      [] opt = "args" -> 15

\* genfile=True
genfile(opt) == opt \in {"config_file", "output_dir"}

\* the value of every trait after construction (usedefault=True and its default)
Defaults ==
    [opt \in Options |->
        IF opt \in {"anonymize", "collapse_folders", "date_in_filename",
                    "events_in_filename", "nii_output", "protocol_in_filename",
                    "convert_all_pars"} THEN Val(TRUE)
        ELSE IF opt \in {"source_in_filename", "gzip_output", "id_in_filename",
                         "reorient_and_crop"} THEN Val(FALSE)
        ELSE Undefined]

\* the trait_spec handed to _format_arg
TraitSpec(opt) == [argstr |-> argstr(opt), bool |-> opt \in BoolTraits]

(***************************************************************************)
(* The command builder: Dcm2nii._format_arg, and CommandLine._format_arg,  *)
(* _parse_inputs and cmdline of the base class.                            *)
(***************************************************************************)
Cmd == <<"dcm2nii">>

\* argstr % value, for an argstr with at most one "%s"
Format(fmt, value) ==
    LET k == Find(fmt, "%s", 1)
    IN  IF k = 0 THEN fmt
        ELSE SubSeq(fmt, 1, k - 1) \o value \o SubSeq(fmt, k + 1, Len(fmt))

\* CommandLine._format_arg: a Bool trait renders as its argstr when true and
\* as nothing when false, every other trait as argstr % value
base_format_arg(name, spec, value) ==
    IF spec.bool THEN (IF value THEN spec.argstr ELSE None)
    ELSE Format(spec.argstr, value)

\* a bug: `val = True` (line 78) left out
format_arg_FalseDropped(opt, spec, val) ==
    LET listed == opt \in {"anonymize", "collapse_folders", "date_in_filename",
                           "events_in_filename", "source_in_filename", "gzip_output",
                           "id_in_filename", "nii_output", "protocol_in_filename",
                           "reorient", "spm_analyze", "convert_all_pars",
                           "reorient_and_crop"}
        spec1 == IF ~listed THEN spec
                 ELSE IF val THEN [spec EXCEPT !.argstr = @ \o <<" ", "y">>]
                 ELSE [spec EXCEPT !.argstr = @ \o <<" ", "n">>]
    IN  IF opt = "source_names" THEN Format(spec1.argstr, val[1])
        ELSE base_format_arg(opt, spec1, val)

\* a bug: the last element of the list rendered instead of the first
format_arg_LastSource(opt, spec, val) ==
    LET listed == opt \in {"anonymize", "collapse_folders", "date_in_filename",
                           "events_in_filename", "source_in_filename", "gzip_output",
                           "id_in_filename", "nii_output", "protocol_in_filename",
                           "reorient", "spm_analyze", "convert_all_pars",
                           "reorient_and_crop"}
        spec1 == IF ~listed THEN spec
                 ELSE IF val THEN [spec EXCEPT !.argstr = @ \o <<" ", "y">>]
                 ELSE [spec EXCEPT !.argstr = @ \o <<" ", "n">>]
        val1 == IF listed /\ ~val THEN TRUE ELSE val
    IN  IF opt = "source_names" THEN Format(spec1.argstr, val1[Len(val1)])
        ELSE base_format_arg(opt, spec1, val1)

\* Dcm2nii._format_arg, lines 68-81
_format_arg(opt, spec, val) ==
    LET listed == opt \in {"anonymize", "collapse_folders", "date_in_filename",
                           "events_in_filename", "source_in_filename", "gzip_output",
                           "id_in_filename", "nii_output", "protocol_in_filename",
                           "reorient", "spm_analyze", "convert_all_pars",
                           "reorient_and_crop"}
        spec1 == IF ~listed THEN spec
                 ELSE IF val THEN [spec EXCEPT !.argstr = @ \o <<" ", "y">>]
                 ELSE [spec EXCEPT !.argstr = @ \o <<" ", "n">>]
        val1 == IF listed /\ ~val THEN TRUE ELSE val
    IN  IF opt = "source_names" THEN Format(spec1.argstr, val1[1])
        ELSE base_format_arg(opt, spec1, val1)

\* _parse_inputs, for one name: the value, generated for an unset genfile
\* trait, and the argument it renders as; None when there is none
ValueOf(inp, name, cw) ==
    IF isdefined(inp[name]) THEN inp[name]
    ELSE IF genfile(name) THEN Val(_gen_filename(name, cw))
    ELSE Undefined

ArgOf(inp, name, cw) ==
    LET value == ValueOf(inp, name, cw)
    IN  IF ~isdefined(value) THEN None
        ELSE _format_arg(name, TraitSpec(name), value.v)

\* initial_args before the loop: no position holds an argument
Positions == 0..16
NoArgs == [pos \in Positions |-> None]

\* _parse_inputs, the loop over the sorted names: initial_args[pos] = arg
RECURSIVE CollectArgs(_, _, _, _)
CollectArgs(inp, cw, names, d) ==
    IF names = <<>> THEN d
    ELSE LET arg == ArgOf(inp, Head(names), cw)
         IN  CollectArgs(inp, cw, Tail(names),
                         IF arg = None THEN d
                         ELSE [d EXCEPT ![position(Head(names))] = arg])

\* [arg for pos, arg in sorted(initial_args.items())]
RECURSIVE SortedArgs(_, _)
SortedArgs(d, keys) ==
    IF keys = {} THEN <<>>
    ELSE LET least == CHOOSE k \in keys : \A j \in keys : k <= j
         IN  <<d[least]>> \o SortedArgs(d, keys \ {least})

_parse_inputs(d) == SortedArgs(d, {pos \in Positions : d[pos] # None})

\* _check_mandatory_inputs and the xor metadata: what cmdline refuses
InputsOk(inp) ==
    /\ isdefined(inp.source_names)
    /\ ~(isdefined(inp.spm_analyze) /\ isdefined(inp.nii_output))

\* _parse_inputs calls _gen_filename(name) for every genfile trait without a
\* value, in the order of the sorted names
RECURSIVE GenCalls(_, _, _, _)
GenCalls(inp, cw, names, f) ==
    IF names = <<>> THEN <<>>
    ELSE IF genfile(Head(names)) /\ ~isdefined(inp[Head(names)])
    THEN <<GenCall(Head(names), cw, f)>>
         \o GenCalls(inp, cw, Tail(names), gen_filename_writes(Head(names), cw, f))
    ELSE GenCalls(inp, cw, Tail(names), f)

\* values the model assigns to the inputs
F1 == <<"functional_1", ".", "dcm">>
F2 == <<"functional_2", ".", "dcm">>
SourceLists == {<<F1>>, <<F1, F2>>, <<F2, F1>>, <<F2, F2, F1>>}
ArgsValues == {<<"--extra">>, F2}
ConfigFiles == {<<"my", ".", "ini">>}
ValuesOf(opt) ==
    {Undefined} \cup
    { Val(x) : x \in
        IF opt \in BoolTraits THEN {TRUE, FALSE}
        ELSE IF opt = "source_names" THEN SourceLists
        ELSE IF opt = "args" THEN ArgsValues
        ELSE IF opt = "config_file" THEN ConfigFiles
        ELSE OutDirs }

(***************************************************************************)
(* Actions.                                                                *)
(***************************************************************************)
\* the object after Dcm2nii(**kwargs), its inputs being inp
Constructed(inp) ==
    /\ inputs = inp
    /\ cwd = <<"/", "w">>
    /\ stdout = <<>>
    /\ lines = <<>>
    /\ i = 0
    /\ pc = "idle"
    /\ locals = Locals0
    /\ hist = <<>>
    /\ gen_calls = 0
    /\ env0 = [cwd |-> <<>>, output_dir |-> Undefined]
    /\ result = <<>>
    /\ first = <<>>
    /\ round = 0
    /\ cmdline = <<>>
    /\ allargs = <<>>
    /\ initial_args = NoArgs
    /\ built = [inputs |-> Defaults, cwd |-> <<>>]
    /\ fs = [d \in Cwds |-> NoFile]
    /\ raised = None
    /\ sets = 0
    /\ stored = Unset
    /\ run = "none"
    /\ before = [stored |-> Unset, round |-> 0, i |-> 0, pc |-> "idle"]
    /\ gen = <<>>

\* Dcm2nii()
Init == Constructed(Defaults)

\* Dcm2nii() or Dcm2nii(source_names=[...])
InitCmd ==
    \/ Constructed(Defaults)
    \/ \E l \in SourceLists : Constructed([Defaults EXCEPT !.source_names = Val(l)])

\* os.chdir(d), between invocations: the scrape is one synchronous call
Chdir(d) ==
    /\ pc \in {"idle", "done"}
    /\ d # cwd
    /\ cwd' = d
    /\ UNCHANGED <<inputs, stdout, lines, i, pc, locals, hist, gen_calls, env0,
                   result, first, round, bvars, rvars>>

\* converter.inputs.<opt> = val
SetInput(opt, val) ==
    /\ pc \in {"idle", "done"}
    /\ inputs' = [inputs EXCEPT ![opt] = val]
    /\ UNCHANGED <<cwd, stdout, lines, i, pc, locals, hist, gen_calls, env0,
                   result, first, round, cmdline, allargs, initial_args, built,
                   fs, raised, rvars>>

\* converter.inputs.output_dir = d
SetOutputDir(d) == SetInput("output_dir", Val(d)) /\ UNCHANGED sets

\* the variables of the scraper
svars == <<stdout, lines, i, pc, locals, hist, gen_calls, env0, result, first, round>>

\* converter.cmdline: _parse_inputs renders every option, a config file is
\* written when none was supplied, and the arguments are joined after the
\* tool's name
BuildCmdline ==
    /\ InputsOk(inputs)
    /\ LET d == CollectArgs(inputs, cwd, SortedNames, NoArgs)
           args == <<Cmd>> \o _parse_inputs(d)
       IN  /\ initial_args' = d
           /\ allargs' = args
           /\ cmdline' = joinstr(" ", args)
    /\ gen' = GenCalls(inputs, cwd, SortedNames, fs)
    /\ fs' = FsAfter(GenCalls(inputs, cwd, SortedNames, fs), fs)
    /\ built' = [inputs |-> inputs, cwd |-> cwd]
    /\ raised' = None
    /\ UNCHANGED <<inputs, cwd, svars, sets, stored, run, before>>

\* converter.cmdline with the mandatory source list missing or with both
\* spm_analyze and nii_output set: an exception, nothing is built
CmdlineError ==
    /\ ~InputsOk(inputs)
    /\ raised' = <<"ConfigurationError">>
    /\ UNCHANGED <<inputs, cwd, svars, cmdline, allargs, initial_args, built, fs, sets,
                   rvars>>

\* _gen_filename(name) called by itself: lines 155-165
GenFilename(name) ==
    /\ gen' = <<GenCall(name, cwd, fs)>>
    /\ fs' = gen_filename_writes(name, cwd, fs)
    /\ UNCHANGED <<inputs, cwd, svars, cmdline, allargs, initial_args, built, raised,
                   sets, stored, run, before>>

\* somebody else writes, or removes, the config.ini of directory d
OtherWrites(d, content) ==
    /\ fs[d] # content
    /\ fs' = [fs EXCEPT ![d] = content]
    /\ UNCHANGED <<inputs, cwd, svars, cmdline, allargs, initial_args, built, raised,
                   sets, rvars>>

\* a bug: last_added_file kept from the call before (not reset at line 99)
ParseStart_Leak(text) ==
    /\ pc \in {"idle", "done"}
    /\ stdout' = text
    /\ lines' = split(text, "\n")
    /\ i' = 1
    /\ pc' = "loop"
    /\ locals' = [Locals0 EXCEPT !.last_added_file = locals.last_added_file]
    /\ hist' = <<[Locals0 EXCEPT !.last_added_file = locals.last_added_file]>>
    /\ gen_calls' = 0
    /\ env0' = [cwd |-> cwd, output_dir |-> inputs.output_dir]
    /\ round' = round + 1
    /\ first' = IF round = 0 THEN first ELSE <<result, env0>>
    /\ UNCHANGED <<inputs, cwd, result, bvars>>

\* _parse_stdout(text) is called: lines 93-100
ParseStart(text) ==
    /\ pc \in {"idle", "done"}
    /\ stdout' = text
    /\ lines' = split(text, "\n")
    /\ i' = 1
    /\ pc' = "loop"
    /\ locals' = Locals0
    /\ hist' = <<Locals0>>
    /\ gen_calls' = 0
    /\ env0' = [cwd |-> cwd, output_dir |-> inputs.output_dir]
    /\ round' = round + 1
    /\ first' = IF round = 0 THEN first ELSE <<result, env0>>
    /\ UNCHANGED <<inputs, cwd, result, bvars>>

\* a bug: the test of line 114 left out; split_filename(None) raises and the
\* call ends without returning
ParseLine_Raises ==
    /\ pc = "loop"
    /\ i <= Len(lines)
    /\ IF /\ ~locals.skip
          /\ ~startswith(lines[i], Saving)
          /\ ~startswith(lines[i], GZip)
          /\ startswith(lines[i], NumberOfDirections)
          /\ locals.last_added_file = None
       THEN /\ pc' = "raised"
            /\ raised' = <<"AttributeError">>
            /\ UNCHANGED <<inputs, cwd, stdout, lines, i, locals, hist, gen_calls, env0,
                           result, first, round, cmdline, allargs, initial_args,
                           built, fs, sets, rvars>>
       ELSE /\ locals' = ProcessLine(locals, lines[i], inputs, cwd)
            /\ hist' = Append(hist, ProcessLine(locals, lines[i], inputs, cwd))
            /\ gen_calls' = IF ~locals.skip /\ CallsGen(lines[i], inputs)
                            THEN gen_calls + 1 ELSE gen_calls
            /\ i' = i + 1
            /\ UNCHANGED <<inputs, cwd, stdout, lines, pc, env0, result, first, round,
                           bvars, rvars>>

\* one iteration of the for loop: lines 100-143
ParseLine ==
    /\ pc = "loop"
    /\ i <= Len(lines)
    /\ locals' = ProcessLine(locals, lines[i], inputs, cwd)
    /\ hist' = Append(hist, ProcessLine(locals, lines[i], inputs, cwd))
    /\ gen_calls' = IF ~locals.skip /\ CallsGen(lines[i], inputs)
                    THEN gen_calls + 1 ELSE gen_calls
    /\ i' = i + 1
    /\ UNCHANGED <<inputs, cwd, stdout, lines, pc, env0, result, first, round,
                   bvars, rvars>>

\* the loop is over: line 144
ParseReturn ==
    /\ pc = "loop"
    /\ i > Len(lines)
    /\ result' = Returned(locals)
    /\ pc' = "done"
    /\ UNCHANGED <<inputs, cwd, stdout, lines, i, locals, hist, gen_calls, env0,
                   first, round, bvars, rvars>>

\* what is remembered when _run_interface is entered
Entered == [stored |-> stored, round |-> round, i |-> i, pc |-> pc]

\* _run_interface, lines 85-89: the process ended without an error and wrote
\* text; _parse_stdout(new_runtime.stdout) is called
RunOk(text) ==
    /\ run # "scrape"
    /\ ParseStart(text)
    /\ run' = "scrape"
    /\ before' = Entered
    /\ UNCHANGED <<stored, gen>>

\* a bug: the attributes are emptied before the process is run
RunError_Resets ==
    /\ run # "scrape"
    /\ pc \in {"idle", "done"}
    /\ run' = "error"
    /\ raised' = <<"RuntimeError">>
    /\ before' = Entered
    /\ stored' = <<<<>>, <<>>, <<>>, <<>>, <<>>>>
    /\ UNCHANGED <<inputs, cwd, svars, cmdline, allargs, initial_args, built, fs, sets,
                   gen>>

\* _run_interface, line 85: super()._run_interface raises, the process having
\* ended in an error; lines 86-90 are not reached
RunError ==
    /\ run # "scrape"
    /\ pc \in {"idle", "done"}
    /\ run' = "error"
    /\ raised' = <<"RuntimeError">>
    /\ before' = Entered
    /\ UNCHANGED <<inputs, cwd, svars, cmdline, allargs, initial_args, built, fs, sets,
                   stored, gen>>

\* a bug: the returned lists are added to the lists the attributes hold
RunAssign_Extends ==
    /\ run = "scrape"
    /\ pc = "done"
    /\ stored' = IF stored = Unset THEN result
                 ELSE [k \in 1..5 |-> stored[k] \o result[k]]
    /\ run' = "ok"
    /\ UNCHANGED <<inputs, cwd, svars, bvars, before, gen>>

\* _run_interface, lines 86-90: the returned tuple is assigned to the attributes
RunAssign ==
    /\ run = "scrape"
    /\ pc = "done"
    /\ stored' = result
    /\ run' = "ok"
    /\ UNCHANGED <<inputs, cwd, svars, bvars, before, gen>>

\* _list_outputs, lines 146-153: the outputs are the attributes as they are
_list_outputs ==
    [converted_files |-> stored[1], reoriented_files |-> stored[2],
     reoriented_and_cropped_files |-> stored[3], bvecs |-> stored[4],
     bvals |-> stored[5]]

\* one scrape of any text, the directories chosen before it
Next ==
    \/ \E d \in Cwds : pc = "idle" /\ Chdir(d)
    \/ \E d \in OutDirs : pc = "idle" /\ SetOutputDir(d)
    \/ round = 0 /\ UNCHANGED rvars /\ \E t \in Texts(MaxLines) : ParseStart(t)
    \/ ParseLine
    \/ ParseReturn

Spec == Init /\ [][Next]_vars

\* the for loop goes on to its next line: the step of ParseLine, as the loop
\* counter shows it (no other action advances i inside the loop)
NextIteration == pc = "loop" /\ i <= Len(lines) /\ i' = i + 1

\* the call is synchronous: once _parse_stdout is entered the interpreter
\* goes on with the next iteration, and with the return, until it is left
SpecLive == Spec /\ WF_i(NextIteration) /\ WF_vars(ParseReturn)

\* the same text scraped twice; the directories may change in between
NextTwice ==
    \/ \E d \in Cwds : Chdir(d)
    \/ \E d \in OutDirs : SetOutputDir(d)
    \/ round = 0 /\ UNCHANGED rvars /\ \E t \in Texts(MaxLinesTwice) : ParseStart(t)
    \/ round = 1 /\ pc = "done" /\ UNCHANGED rvars /\ ParseStart(stdout)
    \/ ParseLine
    \/ ParseReturn

SpecTwice == Init /\ [][NextTwice]_vars

\* a sequence of runs of one object, each ending in an error or in a scrape
\* of what the process wrote; the working directory may change between the
\* runs
NextRun ==
    \/ \E d \in Cwds : run # "scrape" /\ Chdir(d)
    \/ round < MaxRuns /\ \E t \in RunTexts(MaxLinesRun) : RunOk(t)
    \/ RunError
    \/ ParseLine
    \/ ParseReturn
    \/ RunAssign

SpecRun == Init /\ [][NextRun]_vars

\* the command builder: inputs are assigned, then the command line is built
\* (cmdline is computed from the inputs of the moment alone)
NextCmd ==
    \/ /\ sets < MaxSets
       /\ allargs = <<>>
       /\ \E opt \in Options : \E val \in ValuesOf(opt) :
             SetInput(opt, val) /\ sets' = sets + 1
    \/ BuildCmdline
    \/ CmdlineError

SpecCmd == InitCmd /\ [][NextCmd]_vars

\* the names _gen_filename is called with
GenNames == {"output_dir", "config_file", "source_names"}

\* _gen_filename, called by itself and by cmdline, in directories that hold
\* any config.ini or none
NextGen ==
    \/ \E d \in Cwds : Chdir(d)
    \/ \E d \in Cwds : \E content \in FileContents : OtherWrites(d, content)
    \/ \E val \in ValuesOf("config_file") : SetInput("config_file", val) /\ UNCHANGED sets
    \/ \E name \in GenNames : GenFilename(name)
    \/ BuildCmdline
    \/ CmdlineError

SpecGen == InitCmd /\ [][NextGen]_vars

(***************************************************************************)
(* Vocabulary of the properties of the scraper.                            *)
(***************************************************************************)
Lists == {"files", "reoriented_files", "reoriented_and_cropped_files", "bvecs", "bvals"}

\* some line of the current scrape has been processed
Stepped == pc \in {"loop", "done"} /\ i > 1
\* the line processed last, and the locals as they were before it
LastLine == lines[i - 1]
pre == hist[i - 1]

IsPrefix(a, b) == Len(a) <= Len(b) /\ SubSeq(b, 1, Len(a)) = a
Count(list, x) == Cardinality({k \in 1..Len(list) : list[k] = x})
\* list b is list a with exactly one entry added at its end
GrewByOne(a, b) == Len(b) = Len(a) + 1 /\ IsPrefix(a, b)
Unchanged(names) == \A f \in names : locals[f] = pre[f]

\* the last line was processed, not skipped, by rule 5 or by rule 6
ByReorienting ==
    /\ ~pre.skip
    /\ startswith(LastLine, Reorienting)
    /\ GrewByOne(pre.reoriented_files, locals.reoriented_files)
ByCropping ==
    /\ ~pre.skip
    /\ startswith(LastLine, Cropping)
    /\ GrewByOne(pre.reoriented_and_cropped_files, locals.reoriented_and_cropped_files)

\* C1: the first line is never skipped; a line is skipped exactly when the
\* line before it was processed, not skipped, by the "Reorienting as " or the
\* "Cropping NIfTI/Analyze image " rule; a skipped line changes no list and
\* not the last file, whatever it holds, and the line after it is not skipped.
C1_SkipExactlyOne ==
    /\ (pc = "loop" /\ i = 1) => ~locals.skip
    /\ Stepped =>
        /\ locals.skip <=> (ByReorienting \/ ByCropping)
        /\ pre.skip => /\ Unchanged(Lists)
                       /\ locals.last_added_file = pre.last_added_file
                       /\ ~locals.skip

\* a "Reorienting as " line was skipped after a "Reorienting as " line, and
\* the line after it was classified as a "Saving " line
C1_Witness ==
    /\ pc = "loop" /\ i = 4
    /\ startswith(lines[1], Reorienting) /\ ~HasArrow(lines[1])
    /\ startswith(lines[2], Reorienting) /\ ~HasArrow(lines[2])
    /\ startswith(lines[3], Saving)
    /\ Len(locals.reoriented_files) = 1
    /\ Len(locals.files) = 1

\* C2: a line that is not skipped, begins with "Reorienting as " or
\* "Cropping NIfTI/Analyze image " and contains "-->" is handled by the arrow
\* rule only: one path more in the converted list, nothing more in the
\* reoriented and the reoriented-and-cropped list, the skip flag not set.
C2_ArrowBeforeReorienting ==
    (/\ Stepped
     /\ ~pre.skip
     /\ startswith(LastLine, Reorienting) \/ startswith(LastLine, Cropping)
     /\ HasArrow(LastLine))
    => /\ GrewByOne(pre.files, locals.files)
       /\ Unchanged(Lists \ {"files"})
       /\ ~locals.skip

C2_Witness ==
    /\ Stepped
    /\ ~pre.skip
    /\ startswith(LastLine, Cropping)
    /\ HasArrow(LastLine)
    /\ Len(locals.files) = 2

\* C3 as claimed: a line that is not skipped and begins with "Saving " adds
\* its remainder, whatever it is, to the converted list and makes it the last
\* file; the other four lists are unchanged.
C3_Claimed ==
    (Stepped /\ ~pre.skip /\ startswith(LastLine, Saving))
    => /\ locals.files = Append(pre.files, After(LastLine, Saving))
       /\ locals.last_added_file = After(LastLine, Saving)
       /\ Unchanged(Lists \ {"files"})

\* C3 as amended: so it is when the remainder is not empty; a "Saving " line
\* with an empty remainder changes no list and not the last file.
C3_SavingNonEmpty ==
    (Stepped /\ ~pre.skip /\ startswith(LastLine, Saving))
    => IF After(LastLine, Saving) # <<>>
       THEN /\ locals.files = Append(pre.files, After(LastLine, Saving))
            /\ locals.last_added_file = After(LastLine, Saving)
            /\ Unchanged(Lists \ {"files"})
       ELSE /\ Unchanged(Lists)
            /\ locals.last_added_file = pre.last_added_file

C3_Witness ==
    /\ Stepped
    /\ ~pre.skip
    /\ startswith(LastLine, Saving)
    /\ After(LastLine, Saving) # <<>>
    /\ Len(pre.files) = 1
    /\ Len(locals.files) = 2

\* C4: a line that is not skipped and begins with "Number of diffusion
\* directions ": with a last file remembered, the b-vector and the b-value
\* list each get one path more, the last file's directory joined with its
\* base name and ".bvec" / ".bval"; with none remembered they are unchanged.
\* Either way the converted list, the last file, the skip flag and the other
\* lists are unchanged, also when the line contains "-->".
C4_DiffusionDirections ==
    (Stepped /\ ~pre.skip /\ startswith(LastLine, NumberOfDirections))
    => /\ IF pre.last_added_file # None
          THEN LET dir == os_path_split(pre.last_added_file)[1]
                   base == os_path_splitext(os_path_split(pre.last_added_file)[2])[1]
               IN  /\ locals.bvecs =
                        Append(pre.bvecs, os_path_join(dir, base \o <<".", "bvec">>))
                   /\ locals.bvals =
                        Append(pre.bvals, os_path_join(dir, base \o <<".", "bval">>))
          ELSE Unchanged({"bvecs", "bvals"})
       /\ Unchanged(Lists \ {"bvecs", "bvals"})
       /\ locals.last_added_file = pre.last_added_file
       /\ locals.skip = pre.skip

\* a diffusion line that contains "-->" was processed with a last file remembered
C4_Witness ==
    /\ Stepped
    /\ ~pre.skip
    /\ startswith(LastLine, NumberOfDirections)
    /\ HasArrow(LastLine)
    /\ pre.last_added_file = <<"/", "a", ".", "b">>
    /\ locals.bvecs = <<<<"/", "a", ".", "bvec">>>>
    /\ locals.bvals = <<<<"/", "a", ".", "bval">>>>

\* the lines k of the current scrape that were processed and not skipped
Processed == {k \in 1..(i - 1) : ~hist[k].skip}
FinalOf(f) ==
    result[CHOOSE n \in 1..5 :
             <<"files", "reoriented_files", "reoriented_and_cropped_files",
               "bvecs", "bvals">>[n] = f]

\* C5: the five lists are empty before the first line; each list after k
\* lines is a prefix of the list after k+1 lines and of the returned list;
\* the returned lists hold an entry for every processed "Saving <path>" and
\* plain "Reorienting as <path>" line, repeated lines giving repeated entries.
C5_AppendOnly ==
    /\ pc \in {"loop", "done"} =>
        /\ \A f \in Lists : hist[1][f] = <<>>
        /\ \A k \in 1..(Len(hist) - 1) : \A f \in Lists :
              IsPrefix(hist[k][f], hist[k + 1][f])
    /\ pc = "done" =>
        /\ \A k \in 1..Len(hist) : \A f \in Lists : IsPrefix(hist[k][f], FinalOf(f))
        /\ \A k \in Processed :
              /\ (startswith(lines[k], Saving) /\ After(lines[k], Saving) # <<>>)
                 => Count(FinalOf("files"), After(lines[k], Saving))
                      >= Cardinality({j \in Processed : lines[j] = lines[k]})
              /\ (startswith(lines[k], Reorienting) /\ ~HasArrow(lines[k]))
                 => Count(FinalOf("reoriented_files"), After(lines[k], Reorienting))
                      >= Cardinality({j \in Processed : lines[j] = lines[k]})

\* the same "Saving " line twice gave the same entry twice
C5_Witness ==
    /\ pc = "done"
    /\ Len(lines) = 3
    /\ lines[1] = lines[2]
    /\ startswith(lines[1], Saving)
    /\ Len(result[1]) >= 2
    /\ result[1][1] = result[1][2]

\* C6 as claimed: the same text scraped a second time gives the same five
\* lists as the first time.
C6_Claimed ==
    (round = 2 /\ pc = "done") => result = first[1]

\* C6 as amended: so it is when output_dir and the working directory are
\* the same at both scrapes.
C6_SameTextSameDirectories ==
    (round = 2 /\ pc = "done" /\ first[2] = env0) => result = first[1]

\* two scrapes in the same directories of a text with lines that are
\* resolved against the output directory
C6_Witness ==
    /\ round = 2 /\ pc = "done"
    /\ first[2] = env0
    /\ gen_calls = 2
    /\ Len(result[1]) = 2

\* the directory of a scrape: the output_dir supplied, else the working
\* directory at the time _parse_stdout was called
EffectiveDir ==
    IF isdefined(env0.output_dir) THEN env0.output_dir.v ELSE env0.cwd
IsGZipLine(line) == ~startswith(line, Saving) /\ startswith(line, GZip)
IsArrowLine(line) ==
    /\ ~startswith(line, Saving)
    /\ ~startswith(line, GZip)
    /\ ~startswith(line, NumberOfDirections)
    /\ HasArrow(line)

\* every "GZip..." and arrow line processed so far added its path resolved
\* against the one effective directory of the scrape
ResolvedAgainstOneDir ==
    pc \in {"loop", "done"} =>
        \A k \in Processed :
            /\ IsGZipLine(lines[k]) =>
                 hist[k + 1].files =
                   Append(hist[k].files,
                          os_path_abspath(os_path_join(EffectiveDir, After(lines[k], GZip)),
                                          env0.cwd))
            /\ IsArrowLine(lines[k]) =>
                 hist[k + 1].files =
                   Append(hist[k].files, os_path_join(EffectiveDir, ArrowGroup(lines[k])))

\* C7 as claimed: one directory resolves every such path of a scrape, and
\* without an output_dir supplied it is generated once, not once per line.
C7_Claimed ==
    /\ ResolvedAgainstOneDir
    /\ (pc \in {"loop", "done"} /\ ~isdefined(env0.output_dir)) => gen_calls <= 1

\* C7 as amended: one directory resolves every such path of a scrape: the
\* output_dir supplied, and then nothing is generated; else the working
\* directory, which is generated anew for every "GZip..." and arrow line
\* and is every time the working directory of the time of the call.
C7_OneDirectoryGeneratedPerLine ==
    /\ ResolvedAgainstOneDir
    /\ pc \in {"loop", "done"} =>
         gen_calls = IF isdefined(env0.output_dir) THEN 0
                     ELSE Cardinality({k \in Processed :
                                          IsGZipLine(lines[k]) \/ IsArrowLine(lines[k])})

\* a "GZip..." line and an arrow line were resolved with no output_dir supplied
C7_Witness ==
    /\ pc = "done"
    /\ ~isdefined(env0.output_dir)
    /\ env0.cwd = <<"/", "v">>
    /\ gen_calls = 2
    /\ result[1] = << <<"/", "v", "/", "a">>, <<"/", "v", "/">> >>

(***************************************************************************)
(* Vocabulary of the properties of the command builder.                    *)
(***************************************************************************)
\* cmdline has been built, from the inputs built.inputs
Built == allargs # <<>>
BuiltFrom(opt) == built.inputs[opt]
yn(b) == IF b THEN "y" ELSE "n"

\* C8: every boolean option that has a value is rendered as its flag, a
\* blank and "y" when the value is true, "n" when it is false, and that
\* argument is in the argument vector, whichever option it is.
C8_BooleanYesNo ==
    Built =>
        \A opt \in {"anonymize", "collapse_folders", "date_in_filename",
                    "events_in_filename", "source_in_filename", "gzip_output",
                    "id_in_filename", "nii_output", "protocol_in_filename",
                    "reorient", "spm_analyze", "convert_all_pars",
                    "reorient_and_crop"} :
            isdefined(BuiltFrom(opt)) =>
                /\ initial_args[position(opt)] =
                     argstr(opt) \o <<" ", yn(BuiltFrom(opt).v)>>
                /\ Count(allargs, argstr(opt) \o <<" ", yn(BuiltFrom(opt).v)>>) = 1

\* spm_analyze and reorient, which have no default, set to false and true
C8_Witness ==
    /\ Built
    /\ isdefined(BuiltFrom("spm_analyze")) /\ ~BuiltFrom("spm_analyze").v
    /\ initial_args[12] = <<"-s", " ", "n">>
    /\ initial_args[0] = <<"-a", " ", "y">>
    /\ ~isdefined(BuiltFrom("nii_output"))

\* C9: with a source list of two or more files the last argument of the
\* command is the first file of the list, rendered at the position of the
\* source list; no other argument is a file of the list, but for what the
\* user wrote into the free-form args.
C9_FirstSourceOnly ==
    (Built /\ Len(BuiltFrom("source_names").v) >= 2) =>
        LET src == BuiltFrom("source_names").v
        IN  /\ initial_args[16] = src[1]
            /\ allargs[Len(allargs)] = src[1]
            /\ \A pos \in Positions \ {15, 16} : initial_args[pos] \notin Range(src)
            /\ \A k \in 1..(Len(allargs) - 1) :
                  allargs[k] \in Range(src) =>
                      /\ isdefined(BuiltFrom("args"))
                      /\ allargs[k] = BuiltFrom("args").v
                      /\ k = Len(allargs) - 1

\* a list of three files whose first file is not its last
C9_Witness ==
    /\ Built
    /\ BuiltFrom("source_names").v = <<F2, F2, F1>>
    /\ allargs[Len(allargs)] = F2
    /\ F1 \notin Range(allargs)

\* what an option is expected to be rendered as
ExpectedArg(opt) ==
    IF opt \in BoolTraits THEN argstr(opt) \o <<" ", yn(BuiltFrom(opt).v)>>
    ELSE IF opt = "config_file"
         THEN <<"-b", " ">> \o (IF isdefined(BuiltFrom(opt)) THEN BuiltFrom(opt).v
                                ELSE ConfigIni)
    ELSE IF opt = "output_dir"
         THEN <<"-o", " ">> \o (IF isdefined(BuiltFrom(opt)) THEN BuiltFrom(opt).v
                                ELSE built.cwd)
    ELSE IF opt = "source_names" THEN BuiltFrom(opt).v[1]
    ELSE BuiltFrom(opt).v
\* the options that are rendered: those with a value (set or default) and
\* those whose value is generated
Rendered == {opt \in Options : isdefined(BuiltFrom(opt)) \/ genfile(opt)}

\* C10: the argument vector is the tool's name and then one argument for
\* every option that has a value, in the ascending order of the declared
\* positions; the source file is the last one, right after the free-form
\* args when these are set; an option without value and default is left out;
\* the command line is the vector joined with blanks.
C10_OrderedByPosition ==
    Built =>
        /\ allargs[1] = Cmd
        /\ Len(allargs) = 1 + Cardinality(Rendered)
        /\ \A opt \in Rendered :
              allargs[1 + Cardinality({o \in Rendered : position(o) <= position(opt)})]
                = ExpectedArg(opt)
        /\ allargs[Len(allargs)] = BuiltFrom("source_names").v[1]
        /\ isdefined(BuiltFrom("args")) =>
              allargs[Len(allargs) - 1] = BuiltFrom("args").v
        /\ \A opt \in {"reorient", "spm_analyze", "args"} :
              ~isdefined(BuiltFrom(opt)) =>
                  /\ initial_args[position(opt)] = None
                  /\ \A k \in 1..Len(allargs) : ~startswith(allargs[k], argstr(opt))
        /\ cmdline = joinstr(" ", allargs)

\* the example of the class's docstring, with free-form args in addition
C10_Witness ==
    /\ Built
    /\ BuiltFrom("source_names").v = <<F1, F2>>
    /\ BuiltFrom("args") = Val(<<"--extra">>)
    /\ BuiltFrom("output_dir") = Val(<<".">>)
    /\ cmdline =
        <<"dcm2nii", " ", "-a", " ", "y", " ", "-b", " ", "config", ".", "ini", " ",
          "-c", " ", "y", " ", "-d", " ", "y", " ", "-e", " ", "y", " ",
          "-f", " ", "n", " ", "-g", " ", "n", " ", "-i", " ", "n", " ",
          "-n", " ", "y", " ", "-o", " ", ".", " ", "-p", " ", "y", " ",
          "-v", " ", "y", " ", "-x", " ", "n", " ", "--extra", " ",
          "functional_1", ".", "dcm">>

(***************************************************************************)
(* Vocabulary of the properties of _run_interface.                         *)
(***************************************************************************)
\* _parse_stdout computed at once: the loop over the lines from the locals s
RECURSIVE Scrape(_, _, _, _)
Scrape(s, ls, inp, cw) ==
    IF ls = <<>> THEN s ELSE Scrape(ProcessLine(s, Head(ls), inp, cw), Tail(ls), inp, cw)

\* what one call of _parse_stdout on text alone returns, in the directories env
ScrapeOf(text, env) ==
    Returned(Scrape(Locals0, split(text, "\n"),
                    [Defaults EXCEPT !.output_dir = env.output_dir], env.cwd))

\* C11: when the process ends in an error, the scraper is not run on that
\* run's output: after the failure no scrape was started and no line was
\* processed, and the five attributes are as they were before the run.
C11_ErrorSkipsScrape ==
    run = "error" =>
        /\ stored = before.stored
        /\ round = before.round
        /\ i = before.i
        /\ pc = before.pc
        /\ pc # "loop"

\* a run failed after a run that stored a converted file
C11_Witness ==
    /\ run = "error"
    /\ raised = <<"RuntimeError">>
    /\ round = 1
    /\ stored # Unset
    /\ stored[1] = << <<"/", "w", "/", "a", ".", "b">> >>

\* C12: every call of _gen_filename for the config file, made by itself or
\* because cmdline found no config file supplied, returns "config.ini" and
\* leaves a config.ini in the working directory that holds exactly
\* "[BOOL]\nManualNIfTIConv=0\n", whatever it held before, and touches no other
\* file; a call for the output directory returns the working directory and
\* writes nothing.
C12_GeneratedConfigFile ==
    [][gen' # gen =>
        /\ fs' = IF gen' = <<>> THEN fs ELSE gen'[Len(gen')].fs1
        /\ \A k \in 1..Len(gen') :
              LET call == gen'[k]
              IN  /\ call.cwd = cwd
                  /\ call.fs0 = IF k = 1 THEN fs ELSE gen'[k - 1].fs1
                  /\ call.name = "config_file" =>
                        /\ call.ret = <<"config", ".", "ini">>
                        /\ call.fs1[cwd] = <<"[BOOL]", "\n", "ManualNIfTIConv=0", "\n">>
                        /\ \A d \in Cwds \ {cwd} : call.fs1[d] = call.fs0[d]
                  /\ call.name = "output_dir" =>
                        /\ call.ret = cwd
                        /\ call.fs1 = call.fs0
    ]_vars

\* cmdline, with neither a config file nor an output directory supplied,
\* generated both in a directory whose config.ini held something else
C12_Witness ==
    /\ Len(gen) = 2
    /\ Built
    /\ ~isdefined(built.inputs.config_file)
    /\ gen[1].name = "config_file"
    /\ gen[1].fs0[gen[1].cwd] = OldText
    /\ gen[2].name = "output_dir"
    /\ cwd = gen[1].cwd
    /\ fs[cwd] = ConfigText

(***************************************************************************)
(* The rules of the scraper, one line at a time.                           *)
(***************************************************************************)
\* the rule that classifies a line that is not skipped: 1 "Saving ",
\* 2 "GZip...", 3 "Number of diffusion directions ", 4 the arrow,
\* 5 "Reorienting as ", 6 "Cropping NIfTI/Analyze image ", 0 none
Rule(line) ==
    IF startswith(line, Saving) THEN 1
    ELSE IF startswith(line, GZip) THEN 2
    ELSE IF startswith(line, NumberOfDirections) THEN 3
    ELSE IF \E k \in 1..Len(line) : line[k] = Arrow THEN 4
    ELSE IF startswith(line, Reorienting) THEN 5
    ELSE IF startswith(line, Cropping) THEN 6
    ELSE 0

\* C13: a line that is not skipped, begins with "Cropping NIfTI/Analyze
\* image " and matches none of the rules 1 to 4 adds exactly one path to the
\* reoriented-and-cropped list: the directory of the remainder joined with
\* "c" and the file name of the remainder; the other four lists and the last
\* file are unchanged and the skip flag is set.
C13_CroppingRule ==
    (Stepped /\ ~pre.skip /\ Rule(LastLine) = 6) =>
        LET rem == After(LastLine, Cropping)
            dir == os_path_split(rem)[1]
            name == os_path_split(rem)[2]
        IN  /\ locals.reoriented_and_cropped_files =
                  Append(pre.reoriented_and_cropped_files,
                         os_path_join(dir, <<"c">> \o name))
            /\ Unchanged(Lists \ {"reoriented_and_cropped_files"})
            /\ locals.last_added_file = pre.last_added_file
            /\ locals.skip

\* "Cropping NIfTI/Analyze image d/a" gave "d/ca", after a converted file
C13_Witness ==
    /\ Stepped
    /\ ~pre.skip
    /\ LastLine = Cropping \o <<"d", "/", "a">>
    /\ locals.reoriented_and_cropped_files = << <<"d", "/", "c", "a">> >>
    /\ locals.last_added_file # None
    /\ locals.skip

\* the text that follows the last "-->" of a line that holds one
AfterLastArrow(line) ==
    LET last == CHOOSE k \in 1..Len(line) :
                    /\ line[k] = Arrow
                    /\ \A j \in (k + 1)..Len(line) : line[j] # Arrow
    IN  SubSeq(line, last + 1, Len(line))

\* C14: a line that is not skipped, matches none of the rules 1 to 3 and
\* holds "-->" adds exactly one entry to the converted list and makes it the
\* last file: the effective output directory joined, as os.path.join joins,
\* with the text after the last "-->", an empty text included; no other list
\* changes and the skip flag is not set.
C14_ArrowRule ==
    (Stepped /\ ~pre.skip /\ Rule(LastLine) = 4) =>
        LET entry == os_path_join(EffectiveDir, AfterLastArrow(LastLine))
        IN  /\ locals.files = Append(pre.files, entry)
            /\ locals.last_added_file = entry
            /\ Unchanged(Lists \ {"files"})
            /\ ~locals.skip

\* a line with two arrows and a line with nothing after its arrow, with the
\* output directory "/o" supplied
C14_Witness ==
    /\ pc = "done"
    /\ env0.output_dir = Val(<<"/", "o">>)
    /\ lines = << <<Arrow, "b", Arrow, "a">>, <<Arrow>> >>
    /\ result[1] = << <<"/", "o", "/", "a">>, <<"/", "o", "/">> >>
    /\ locals.last_added_file = <<"/", "o", "/">>

\* the lists that change together
Kinds ==
    { {"files"}, {"reoriented_files"}, {"reoriented_and_cropped_files"},
      {"bvecs", "bvals"} }
ChangedKinds == {kind \in Kinds : \E f \in kind : locals[f] # pre[f]}

\* C15: processing one line changes at most one of the converted list, the
\* reoriented list, the reoriented-and-cropped list and the pair of the
\* b-vector and the b-value list, and what changes grows by exactly one
\* entry (each list of the pair); after n lines no list has more than n
\* entries.
C15_OneKindPerLine ==
    Stepped =>
        /\ Cardinality(ChangedKinds) <= 1
        /\ \A kind \in ChangedKinds : \A f \in kind : GrewByOne(pre[f], locals[f])
        /\ \A f \in Lists : Len(locals[f]) <= i - 1

\* two lines gave a converted file each, then a diffusion line changed the
\* pair and nothing else
C15_Witness ==
    /\ pc = "done"
    /\ Len(lines) = 3
    /\ Len(result[1]) = 2
    /\ ChangedKinds = {{"bvecs", "bvals"}}
    /\ Len(result[4]) = 1

\* C17: after every line the last file is unset exactly when the converted
\* list is empty, and is the last entry of the converted list otherwise; it
\* changes only with a line classified by rule 1, 2 or 4 and is as it was
\* after a skipped line and after a line classified by rule 3, 5, 6 or none.
C17_LastFileIsLastConverted ==
    pc \in {"loop", "done"} =>
        /\ locals.last_added_file = None <=> locals.files = <<>>
        /\ locals.files # <<>> =>
              locals.last_added_file = locals.files[Len(locals.files)]
        /\ Stepped =>
              /\ locals.last_added_file # pre.last_added_file =>
                    ~pre.skip /\ Rule(LastLine) \in {1, 2, 4}
              /\ (pre.skip \/ Rule(LastLine) \in {0, 3, 5, 6}) =>
                    /\ locals.last_added_file = pre.last_added_file
                    /\ locals.files = pre.files

\* the last file outlived a "Reorienting as " line, the line skipped after
\* it and a diffusion line
C17_Witness ==
    /\ pc = "loop" /\ i = 4
    /\ Rule(lines[1]) = 1
    /\ Rule(lines[2]) = 5
    /\ hist[3].skip
    /\ Rule(lines[3]) = 3
    /\ locals.last_added_file = <<"/", "a", ".", "b">>
    /\ locals.files = << <<"/", "a", ".", "b">> >>
    /\ locals.bvecs = <<>>

\* the pair of paths a diffusion line derives from the path f
PairOf(f) ==
    LET dir == os_path_split(f)[1]
        base == os_path_splitext(os_path_split(f)[2])[1]
    IN  <<os_path_join(dir, base \o <<".", "bvec">>),
          os_path_join(dir, base \o <<".", "bval">>)>>

\* C18: after every line the b-vector and the b-value list have the same
\* length; the entries at the same place are one path but for their endings
\* ".bvec" and ".bval", in the same directory; every pair was derived from a
\* path that was in the converted list when the pair was added; so a
\* b-vector list with an entry means a converted list with an entry.
C18_PairedVectorsAndValues ==
    pc \in {"loop", "done"} =>
        /\ Len(locals.bvecs) = Len(locals.bvals)
        /\ \A j \in 1..Len(locals.bvecs) :
              LET vec == locals.bvecs[j]
                  stem == SubSeq(vec, 1, Len(vec) - 2)
              IN  /\ Len(vec) >= 2
                  /\ vec = stem \o <<".", "bvec">>
                  /\ locals.bvals[j] = stem \o <<".", "bval">>
                  /\ os_path_split(vec)[1] = os_path_split(locals.bvals[j])[1]
        /\ \A k \in 1..(Len(hist) - 1) :
              hist[k + 1].bvecs # hist[k].bvecs =>
                  \E f \in Range(hist[k].files) :
                      /\ hist[k + 1].bvecs = Append(hist[k].bvecs, PairOf(f)[1])
                      /\ hist[k + 1].bvals = Append(hist[k].bvals, PairOf(f)[2])
        /\ locals.bvecs # <<>> => locals.files # <<>>

\* two diffusion lines after one converted file gave the same pair twice
C18_Witness ==
    /\ pc = "done"
    /\ result[1] = << <<"/", "a", ".", "b">> >>
    /\ result[4] = << <<"/", "a", ".", "bvec">>, <<"/", "a", ".", "bvec">> >>
    /\ result[5] = << <<"/", "a", ".", "bval">>, <<"/", "a", ".", "bval">> >>

\* C16: runs share no scrape state: every scrape begins with empty lists, the
\* skip flag clear and no last file, whatever the run before left; while it
\* runs its locals are those of its own lines alone; and after a successful
\* run the five attributes, and so the outputs listed, are the scrape of that
\* run's text alone.
C16_RunsShareNothing ==
    /\ pc \in {"loop", "done"} =>
          /\ hist[1] = Locals0
          /\ locals = Scrape(Locals0, SubSeq(lines, 1, i - 1),
                             [Defaults EXCEPT !.output_dir = env0.output_dir], env0.cwd)
    /\ run = "ok" =>
          /\ stored = ScrapeOf(stdout, env0)
          /\ _list_outputs.converted_files = ScrapeOf(stdout, env0)[1]
          /\ _list_outputs.reoriented_files = ScrapeOf(stdout, env0)[2]
          /\ _list_outputs.reoriented_and_cropped_files = ScrapeOf(stdout, env0)[3]
          /\ _list_outputs.bvecs = ScrapeOf(stdout, env0)[4]
          /\ _list_outputs.bvals = ScrapeOf(stdout, env0)[5]

\* the run before ended in a "Reorienting as " line and had stored a
\* converted file; this run's text is a diffusion line, then a "GZip..."
\* line: the first is not skipped and gives no pair, the second is converted
C16_Witness ==
    /\ run = "ok"
    /\ round = 2
    /\ before.stored[1] = << <<"/", "w", "/", "a", ".", "b">> >>
    /\ before.stored[2] = << <<"/", "a">> >>
    /\ lines = << NumberOfDirections \o <<Arrow, "a">>, GZip \o <<"a", ".", "b">> >>
    /\ ~hist[1].skip
    /\ stored = << << <<"/", "v", "/", "a", ".", "b">> >>, <<>>, <<>>, <<>>, <<>> >>

\* C19: a scrape once begun comes to its return; it goes through the lines
\* of the text forward, one line at a time, each line processed once and in
\* its turn; it ends with the five lists returned, and no line puts it in
\* another state than those of the loop and the return.
C19_TerminatesAfterOnePass ==
    /\ [](pc \in {"idle", "loop", "done"})
    /\ [][(pc = "loop" /\ i' # i) => (i' = i + 1 /\ i <= Len(lines) /\ lines' = lines)]_vars
    /\ [](pc = "done" =>
            /\ lines = split(stdout, "\n")
            /\ i = Len(lines) + 1
            /\ Len(hist) = Len(lines) + 1
            /\ \A k \in 1..Len(lines) :
                  hist[k + 1] = ProcessLine(hist[k], lines[k],
                                            [Defaults EXCEPT !.output_dir = env0.output_dir],
                                            env0.cwd)
            /\ Len(result) = 5
            /\ result = Returned(hist[Len(hist)]))
    /\ (pc = "loop") ~> (pc = "done")

\* a text of an empty line, a diffusion line without a file before it and a
\* line that holds nothing but an arrow was scraped to its end
C19_Witness ==
    /\ pc = "done"
    /\ lines = << <<>>, NumberOfDirections \o <<Arrow, "a">>, <<Arrow>> >>
    /\ result = << << <<"/", "w", "/">> >>, <<>>, <<>>, <<>>, <<>> >>

====
